---- MODULE Spec2Model ----
\* A model of the fact-check service: the retry decorator
\* (app/utils/retry_decorator.py), the two provider-facing adapters,
\* FactCheckPipeline.execute (app/pipelines/fact_check_pipeline.py) and the
\* HTTP route with FactCheckService (app/api, app/services).
\*
\* The specifications share the variables and the wrapper's operators:
\*   SpecRetry    the decorator alone, around an arbitrary operation, with its
\*                parameters drawn from small sets;
\*   Spec         one execution of the pipeline, whose two steps run inside
\*                the decorator as the adapters configure it;
\*   SpecFair     Spec with every provider call answered and every sleep ended;
\*   SpecConfig   the model selection of that execution, with MODEL_MAPPING
\*                whole or with an entry missing;
\*   SpecGateway  one call of OpenRouterAdapter.make_request in either mode;
\*   SpecApi      one request to POST /fact-check;
\*   SpecConcurrent  concurrent executions of the pipeline.
\*
\* Time is counted in ticks; a second is TicksPerSecond ticks.  A string that
\* the code builds by formatting is a sequence of pieces, concatenation is \o.
EXTENDS Integers, Sequences, FiniteSets, TLC

VARIABLES
    frame,           \* the running call of wrapper(): its parameters and locals
    state,           \* where execute() is: START, SEARCHING, EVALUATING, DONE, FAILED
    params,          \* the PipelineParams execute() was called with
    today,           \* the calendar date datetime.now() would return
    search_calls,    \* the calls of websearch_adapter.search made by execute()
    eval_calls,      \* the calls of openrouter_adapter.make_request made by execute()
    provider_calls,  \* the requests sent to the provider, one per attempt
    search_results,  \* execute()'s local search_results
    delivered,       \* what the caller of execute() has received so far
    mapping,         \* the module-level dict MODEL_MAPPING as the process holds it
    api,             \* one HTTP request to POST /fact-check and its handling
    tasks            \* concurrent executions of execute(): the locals of each

vars == <<frame, state, params, today, search_calls, eval_calls,
          provider_calls, search_results, delivered, mapping, api, tasks>>

pipeline_vars == <<state, params, today, search_calls, eval_calls,
                   provider_calls, search_results, delivered, mapping, api,
                   tasks>>

\* What no step of the pipeline or of the adapters touches.
env_vars == <<mapping, api, tasks>>

----------------------------------------------------------------------------
\* Bounds of the model

MaxRetriesBound == 3
TicksPerSecond == 10
MaxDay == 2

\* Parameters of the decorator and of its uses
DEFAULT_MAX_RETRIES == 5
DEFAULT_MAX_DELAY_S == 60
DEFAULT_JITTER_PERCENT == 10
ADAPTER_MAX_RETRIES == 3
ADAPTER_BASE_DELAY_S == 1

Min(a, b) == IF a <= b THEN a ELSE b

----------------------------------------------------------------------------
\* Exceptions.  An exception object is [cls, id]; id is the number of the
\* invocation that raised it, which tells one raised object from another.

\* The classes met here: APIError (the client's), OpenRouterAdapterException,
\* WebsearchException, ValueError, CancelledError.

IsInstanceCancelledIsException(cls, base) ==
    \/ cls = base
    \/ base \in {"BaseException", "Exception"}

\* Python's class hierarchy: asyncio.CancelledError derives from BaseException,
\* every other class here from Exception.
IsInstance(cls, base) ==
    \/ cls = base
    \/ base = "BaseException"
    \/ base = "Exception" /\ cls # "CancelledError"

Exc(cls, n) == [cls |-> cls, id |-> n]

----------------------------------------------------------------------------
\* The retry decorator

NoResult == [kind |-> "none"]
Returned(v) == [kind |-> "value", v |-> v]
Raised(e) == [kind |-> "exc", e |-> e]

\* wrapper() is entered: retries = 0, nothing invoked yet.
NewFrame(cfg) ==
    [cfg |-> cfg, retries |-> 0, pc |-> "idle", trace |-> <<>>,
     result |-> NoResult]

CallEv == [ev |-> "call"]
OkEv(v) == [ev |-> "ok", v |-> v]
FailEv(e) == [ev |-> "fail", e |-> e]

\* wait_time = delay + jitter
WaitTime(delay, jitter) == delay + jitter

\* await asyncio.sleep(wait_time)
SleepEv(delay, jitter) ==
    [ev |-> "sleep", delay |-> delay, jitter |-> jitter,
     wait |-> WaitTime(delay, jitter)]

CountEv(trace, kind) == Cardinality({i \in 1..Len(trace) : trace[i].ev = kind})
Calls(f) == CountEv(f.trace, "call")
Sleeps(f) == CountEv(f.trace, "sleep")
Failures(f) == CountEv(f.trace, "fail")

\* e is an instance of one of the classes of exceptions_to_retry.
IsRetryable(cfg, e) ==
    \E base \in cfg.exceptions_to_retry : IsInstance(e.cls, base)

ExceptClauseCatchesAll(cfg, e) == TRUE

\* `except exceptions_to_retry as e` catches e.
ExceptClauseCatches(cfg, e) == IsRetryable(cfg, e)

BackoffDelayUncapped(cfg, retries) == cfg.base_delay * (2 ^ (retries - 1))

\* delay = min(max_delay, base_delay * (2 ** (retries - 1)))
BackoffDelay(cfg, retries) ==
    Min(cfg.max_delay, cfg.base_delay * (2 ^ (retries - 1)))

JitterChoicesOfCap(cfg, delay) ==
    {0, (cfg.jitter_factor * cfg.max_delay) \div 100}

\* jitter = random.uniform(0, jitter_factor * delay): the two ends of the range
JitterChoices(cfg, delay) ==
    LET top == (cfg.jitter_factor * delay) \div 100
    IN  {0, top}

ExhaustedOneEarly(cfg, retries) == retries >= cfg.max_retries

ExhaustedOneLate(cfg, retries) == retries > cfg.max_retries + 1

\* `if retries > max_retries`
Exhausted(cfg, retries) == retries > cfg.max_retries

ReraiseWrapped(e) == [cls |-> "RuntimeError", id |-> e.id]

\* The bare `raise` of the handler: the exception being handled goes on.
Reraise(e) == e

\* `return await func(*args, **kwargs)`: func is invoked.
Invoke(f) == [f EXCEPT !.pc = "calling", !.trace = Append(@, CallEv)]

\* func returned v: wrapper returns it.
OnReturn(f, v) ==
    [f EXCEPT !.pc = "returned", !.result = Returned(v),
              !.trace = Append(@, OkEv(v))]

\* func raised e: the except clause, up to the sleep or the raise.
OnException(f, e, jitter) ==
    LET t == Append(f.trace, FailEv(e)) IN
    IF ~ExceptClauseCatches(f.cfg, e)
    THEN [f EXCEPT !.pc = "raised", !.result = Raised(e), !.trace = t]
    ELSE LET r == f.retries + 1 IN
         IF Exhausted(f.cfg, r)
         THEN [f EXCEPT !.retries = r, !.pc = "raised",
                        !.result = Raised(Reraise(e)), !.trace = t]
         ELSE LET delay == BackoffDelay(f.cfg, r) IN
              [f EXCEPT !.retries = r, !.pc = "sleeping",
                        !.trace = Append(t, SleepEv(delay, jitter))]

\* The jitter draws open to the handler of the next failure.
NextJitters(f) ==
    JitterChoices(f.cfg, BackoffDelay(f.cfg, f.retries + 1))

AfterSleepReset(f) == Invoke([f EXCEPT !.retries = 0])

\* asyncio.sleep(wait_time) is over: the loop invokes func again.
AfterSleep(f) == Invoke(f)

\* A CancelledError delivered at `await asyncio.sleep`, which is outside the try.
CancelledInSleep(f) ==
    LET e == Exc("CancelledError", Calls(f)) IN
    [f EXCEPT !.pc = "raised", !.result = Raised(e)]

----------------------------------------------------------------------------
\* Model selection (app/config/model_config.py)

UseCases == {"fact_check_websearch", "fact_check_evaluation"}

MODEL_MAPPING ==
    [fact_check_websearch |-> "OPEN_AI_GPT_5_2_CHAT",
     fact_check_evaluation |-> "OPEN_AI_GPT_5_2"]

\* get_model_name: the mapped name, or ValueError for an unmapped use case
get_model_name(use_case) ==
    IF use_case \notin DOMAIN mapping
    THEN [ok |-> FALSE, cls |-> "ValueError"]
    ELSE [ok |-> TRUE, name |-> <<mapping[use_case]>>]

get_websearch_model_unsuffixed(use_case) == get_model_name(use_case)

\* get_websearch_model: f"{get_model_name(use_case)}:online"
get_websearch_model(use_case) ==
    LET m == get_model_name(use_case) IN
    IF m.ok THEN [ok |-> TRUE, name |-> m.name \o <<":online">>] ELSE m

----------------------------------------------------------------------------
\* No concurrent executions are under way.
NoTasks == <<>>

\* The HTTP request of the process, before any has arrived
NoResponse == [kind |-> "none"]
NoRequest == [kind |-> "none"]

IdleApi ==
    [request |-> NoRequest, provider |-> "up", phase |-> "idle",
     service_calls |-> 0, pipeline_calls |-> <<>>, response |-> NoResponse]

----------------------------------------------------------------------------
\* SpecRetry: the decorator around an arbitrary operation

Values == {"v1", "v2"}
OpExcClasses == {"APIError", "OpenRouterAdapterException", "CancelledError"}

RetryConfigs ==
    [max_retries : 0..MaxRetriesBound,
     base_delay : {ADAPTER_BASE_DELAY_S * TicksPerSecond},
     max_delay : {TicksPerSecond \div 2, (3 * TicksPerSecond) \div 2,
                  DEFAULT_MAX_DELAY_S * TicksPerSecond},
     jitter_factor : {0, DEFAULT_JITTER_PERCENT},
     exceptions_to_retry : {{"Exception"}, {"OpenRouterAdapterException"}}]

IdleParams == [query |-> "none", max_results |-> 0]

InitRetry ==
    /\ frame \in {NewFrame(cfg) : cfg \in RetryConfigs}
    /\ state = "START"
    /\ params = IdleParams
    /\ today = 1
    /\ search_calls = <<>>
    /\ eval_calls = <<>>
    /\ provider_calls = <<>>
    /\ search_results = NoResult
    /\ delivered = <<>>
    /\ mapping = MODEL_MAPPING
    /\ api = IdleApi
    /\ tasks = NoTasks

WrapperCalled ==
    /\ frame.pc = "idle"
    /\ frame' = Invoke(frame)
    /\ UNCHANGED pipeline_vars

FuncReturns ==
    /\ frame.pc = "calling"
    /\ \E v \in Values : frame' = OnReturn(frame, v)
    /\ UNCHANGED pipeline_vars

FuncRaises ==
    /\ frame.pc = "calling"
    /\ \E cls \in OpExcClasses, jitter \in NextJitters(frame) :
         frame' = OnException(frame, Exc(cls, Calls(frame)), jitter)
    /\ UNCHANGED pipeline_vars

SleepEnds ==
    /\ frame.pc = "sleeping"
    /\ frame' = AfterSleep(frame)
    /\ UNCHANGED pipeline_vars

SleepCancelled ==
    /\ frame.pc = "sleeping"
    /\ frame' = CancelledInSleep(frame)
    /\ UNCHANGED pipeline_vars

NextRetry ==
    \/ WrapperCalled
    \/ FuncReturns
    \/ FuncRaises
    \/ SleepEnds
    \/ SleepCancelled

SpecRetry == InitRetry /\ [][NextRetry]_vars

----------------------------------------------------------------------------
\* The data of one execution

MaxEvidence == 2
SERVICE_MAX_RESULTS == 5

Claims == {"The sky is blue", "Test claim"}

\* The PipelineParams an execution may be given: the service's max_results
\* and the least value PipelineParams allows (ge=1).
ParamChoices ==
    {[query |-> "The sky is blue", max_results |-> SERVICE_MAX_RESULTS],
     [query |-> "Test claim", max_results |-> 1]}

EvidenceItems ==
    {[title |-> "NASA confirms sky is blue", url |-> "https://nasa.gov/sky",
      content |-> "Rayleigh scattering"],
     [title |-> "Science Daily", url |-> "https://sciencedaily.com/earth",
      content |-> "Earth's shape"]}

RECURSIVE SeqsUpTo(_, _)
SeqsUpTo(S, n) ==
    IF n = 0 THEN {<<>>}
    ELSE LET shorter == SeqsUpTo(S, n - 1) IN
         shorter \cup {Append(q, x) : q \in shorter, x \in S}

\* What the provider may parse into a WebsearchResponseList: any list of
\* items, whatever max_results was.
EvidenceLists == SeqsUpTo(EvidenceItems, MaxEvidence)

\* datetime.now().strftime("%Y-%m-%d") on day number d
StrfDate(d) ==
    <<"2025-12-30", "2025-12-31", "2026-01-01", "2026-01-02", "2026-01-03",
      "2026-01-04">>[d]

\* What the provider may parse into a ClaimReview: any schema-valid record.
\* The model takes one record and every record that differs from it in one field.
BaseVerdict ==
    [claimReviewed |-> "The sky is blue",
     datePublished |-> StrfDate(1),
     reviewRating |-> [ratingValue |-> "5", alternateName |-> "True"],
     itemReviewed |-> <<"https://nasa.gov/sky">>]

Verdicts ==
    {BaseVerdict}
    \cup {[BaseVerdict EXCEPT !.claimReviewed = c] : c \in Claims}
    \cup {[BaseVerdict EXCEPT !.datePublished = StrfDate(d)] : d \in 1..MaxDay}
    \cup {[BaseVerdict EXCEPT !.reviewRating = r] :
            r \in {[ratingValue |-> "2", alternateName |-> "True"],
                   [ratingValue |-> "9", alternateName |-> "Certain"]}}
    \cup {[BaseVerdict EXCEPT !.itemReviewed = u] :
            u \in {<<>>, <<"https://example.com/invented">>}}

----------------------------------------------------------------------------
\* The adapters' uses of the decorator

\* @retry_with_exponential_backoff_async(max_retries=3, base_delay=1.0,
\*     exceptions_to_retry=(Exception, WebsearchException)) on search
SearchRetryConfig ==
    [max_retries |-> ADAPTER_MAX_RETRIES,
     base_delay |-> ADAPTER_BASE_DELAY_S * TicksPerSecond,
     max_delay |-> DEFAULT_MAX_DELAY_S * TicksPerSecond,
     jitter_factor |-> DEFAULT_JITTER_PERCENT,
     exceptions_to_retry |-> {"Exception", "WebsearchException"}]

GatewayRetryConfigDefaultRetries ==
    [max_retries |-> DEFAULT_MAX_RETRIES,
     base_delay |-> ADAPTER_BASE_DELAY_S * TicksPerSecond,
     max_delay |-> DEFAULT_MAX_DELAY_S * TicksPerSecond,
     jitter_factor |-> DEFAULT_JITTER_PERCENT,
     exceptions_to_retry |-> {"Exception", "OpenRouterAdapterException"}]

\* @retry_with_exponential_backoff_async(max_retries=3, base_delay=1.0,
\*     exceptions_to_retry=(Exception, OpenRouterAdapterException)) on make_request
GatewayRetryConfig ==
    [max_retries |-> ADAPTER_MAX_RETRIES,
     base_delay |-> ADAPTER_BASE_DELAY_S * TicksPerSecond,
     max_delay |-> DEFAULT_MAX_DELAY_S * TicksPerSecond,
     jitter_factor |-> DEFAULT_JITTER_PERCENT,
     exceptions_to_retry |-> {"Exception", "OpenRouterAdapterException"}]

\* The request search() sends with its own client, built anew on each attempt.
SearchRequest(args) ==
    [step |-> "search",
     client |-> "OpenRouterWebsearchAdapter.client",
     model |-> get_websearch_model("fact_check_websearch").name,
     messages |->
        <<[role |-> "system", content |-> <<"WEBSEARCH_SYSTEM_PROMPT">>],
          [role |-> "user",
           content |-> <<"Search for evidence about this claim: ", args.query,
                         "Return up to ", ToString(args.max_results),
                         " relevant sources.">>]>>,
     response_format |-> "WebsearchResponseList"]

\* The request make_request() sends in structured mode, from its arguments.
GatewayRequest(call) ==
    [step |-> "evaluation",
     client |-> "OpenRouterAdapter.client",
     model |-> call.model,
     messages |-> call.messages,
     response_format |-> call.output_type]

----------------------------------------------------------------------------
\* FactCheckPipeline

RECURSIVE JoinBlocks(_, _)
\* sep.join(blocks)
JoinBlocks(sep, blocks) ==
    IF blocks = <<>> THEN <<>>
    ELSE IF Len(blocks) = 1 THEN blocks[1]
    ELSE blocks[1] \o <<sep>> \o JoinBlocks(sep, Tail(blocks))

EvidenceBlockWithoutUrl(r) == <<"**", r.title, "**", r.content>>

\* f"**{r.title}**\nURL: {r.url}\n{r.content}"
EvidenceBlock(r) == <<"**", r.title, "**", "URL: ", r.url, r.content>>

build_user_prompt_reversed(query, results, current_date) ==
    <<"Claim to fact-check:", query, "Search Results:">>
    \o JoinBlocks("<blank line>",
                  [i \in 1..Len(results) |->
                      EvidenceBlock(results[Len(results) + 1 - i])])
    \o <<"Today's date: ", current_date,
         "Evaluate this claim and return a ClaimReview JSON.">>

\* _build_user_prompt
build_user_prompt(query, results, current_date) ==
    <<"Claim to fact-check:", query, "Search Results:">>
    \o JoinBlocks("<blank line>", [i \in 1..Len(results) |-> EvidenceBlock(results[i])])
    \o <<"Today's date: ", current_date,
         "Evaluate this claim and return a ClaimReview JSON.">>

\* EVALUATION_PROMPT.format(current_date=current_date): two occurrences
system_prompt(current_date) ==
    <<"EVALUATION_PROMPT[:datePublished MUST be: ", current_date,
      "EVALUATION_PROMPT[...datePublished is ", current_date,
      "EVALUATION_PROMPT[...]">>

SearchArgsDefaultCount(p) ==
    [query |-> p.query, max_results |-> SERVICE_MAX_RESULTS]

\* execute -> _search_for_evidence -> websearch_adapter.search(query=, max_results=)
SearchArgs(p) == [query |-> p.query, max_results |-> p.max_results]

\* _evaluate_claim up to the call of make_request: its keyword arguments
EvaluationCall(query, results, date) ==
    [model |-> get_model_name("fact_check_evaluation").name,
     messages |->
        <<[role |-> "system", content |-> system_prompt(date)],
          [role |-> "user", content |-> build_user_prompt(query, results, date)]>>,
     output_type |-> "ClaimReview"]

RetriedCallRebuilt(call) ==
    EvaluationCall(params.query, search_results.v, StrfDate(today))

\* `await func(*args, **kwargs)` in the wrapper's loop: a retry passes the
\* arguments the wrapper was called with, the messages among them.
RetriedCall(call) == call

Verdict(v) == [kind |-> "verdict", v |-> v]
Failure(e) == [kind |-> "error", e |-> e]

ExecuteReturnRestamped(claim_review) ==
    [claim_review EXCEPT !.datePublished = StrfDate(today)]

\* `return claim_review`
ExecuteReturn(claim_review) == claim_review

\* The search returned rs: execute goes on to _evaluate_claim, which reads the
\* date, builds the messages and calls make_request; its first attempt is sent.
\* When get_model_name raises, it does so while the arguments of make_request
\* are evaluated: make_request is not entered and the ValueError leaves
\* _evaluate_claim and execute.
StartEvaluation(rs) ==
    LET m == get_model_name("fact_check_evaluation") IN
    IF m.ok
    THEN LET call == EvaluationCall(params.query, rs, StrfDate(today)) IN
         /\ state' = "EVALUATING"
         /\ search_results' = Returned(rs)
         /\ eval_calls' = Append(eval_calls, call)
         /\ frame' = Invoke(NewFrame(GatewayRetryConfig))
         /\ provider_calls' = Append(provider_calls, GatewayRequest(call))
         /\ UNCHANGED <<params, today, search_calls, delivered>>
    ELSE /\ search_results' = Returned(rs)
         /\ frame' = OnReturn(frame, rs)
         /\ state' = "FAILED"
         /\ delivered' = Append(delivered, Failure(Exc(m.cls, 0)))
         /\ UNCHANGED <<params, today, search_calls, eval_calls, provider_calls>>

PropagateSwallowed(e) ==
    /\ state' = "FAILED"
    /\ delivered' = delivered

\* An exception leaves execute(), which has no handler: the caller gets it.
Propagate(e) ==
    /\ state' = "FAILED"
    /\ delivered' = Append(delivered, Failure(e))

AfterSearchSkipEmpty(rs) ==
    IF rs = <<>>
    THEN /\ Propagate(Exc("WebsearchException", 0))
         /\ frame' = OnReturn(frame, rs)
         /\ search_results' = Returned(rs)
         /\ UNCHANGED <<params, today, search_calls, eval_calls, provider_calls>>
    ELSE StartEvaluation(rs)

\* execute, after `search_results = await self._search_for_evidence(...)`
AfterSearch(rs) == StartEvaluation(rs)

SearchFailedFallback(f) ==
    IF f.pc = "raised"
    THEN StartEvaluation(<<>>)
    ELSE /\ frame' = f
         /\ UNCHANGED pipeline_vars

\* An attempt of search() failed and the wrapper moved to f: it sleeps, or it
\* raised and the exception goes through _search_for_evidence and execute.
SearchFailed(f) ==
    /\ frame' = f
    /\ IF f.pc = "raised"
       THEN Propagate(f.result.e)
       ELSE UNCHANGED <<state, delivered>>
    /\ UNCHANGED <<params, today, search_calls, eval_calls, provider_calls,
                   search_results>>

\* The same for an attempt of make_request() under _evaluate_claim.
EvaluationFailed(f) ==
    /\ frame' = f
    /\ IF f.pc = "raised"
       THEN Propagate(f.result.e)
       ELSE UNCHANGED <<state, delivered>>
    /\ UNCHANGED <<params, today, search_calls, eval_calls, provider_calls,
                   search_results>>

Init ==
    /\ state = "START"
    /\ params \in ParamChoices
    /\ today = 1
    /\ frame = NewFrame(SearchRetryConfig)
    /\ search_calls = <<>>
    /\ eval_calls = <<>>
    /\ provider_calls = <<>>
    /\ search_results = NoResult
    /\ delivered = <<>>
    /\ mapping = MODEL_MAPPING
    /\ api = IdleApi
    /\ tasks = NoTasks

\* The wrapper of search() has just invoked search() (frame f): the body picks
\* the model and sends the request.  When get_websearch_model raises, it does
\* so inside the wrapper's try, and no request is sent.
SearchAttempt(f, args) ==
    LET m == get_websearch_model("fact_check_websearch") IN
    IF m.ok
    THEN /\ frame' = f
         /\ provider_calls' = Append(provider_calls, SearchRequest(args))
         /\ state' = "SEARCHING"
         /\ UNCHANGED delivered
    ELSE /\ provider_calls' = provider_calls
         /\ \E jitter \in NextJitters(f) :
              LET g == OnException(f, Exc(m.cls, Calls(f)), jitter) IN
              /\ frame' = g
              /\ IF g.pc = "raised"
                 THEN Propagate(g.result.e)
                 ELSE state' = "SEARCHING" /\ UNCHANGED delivered

\* execute(params): the search adapter is called and makes its first attempt.
execute ==
    /\ state = "START"
    /\ search_calls' = Append(search_calls, SearchArgs(params))
    /\ SearchAttempt(Invoke(NewFrame(SearchRetryConfig)), SearchArgs(params))
    /\ UNCHANGED <<params, today, eval_calls, search_results>>
    /\ UNCHANGED env_vars

SearchReturnTruncated(results, max_results) ==
    SubSeq(results, 1, Min(Len(results), max_results))

\* `result = response.choices[0].message.parsed; return result.results`
SearchReturn(results, max_results) == results

\* The provider answers the search with a WebsearchResponseList whose results
\* are rs: search returns, and execute goes on with what it returned.
SearchProviderParsed(rs) ==
    /\ state = "SEARCHING"
    /\ frame.pc = "calling"
    /\ AfterSearch(SearchReturn(rs, search_calls[1].max_results))
    /\ UNCHANGED env_vars

SearchProviderReturns == \E rs \in EvidenceLists : SearchProviderParsed(rs)

\* The provider answers with no parsed object: WebsearchException.
SearchProviderEmpty ==
    /\ state = "SEARCHING"
    /\ frame.pc = "calling"
    /\ \E jitter \in NextJitters(frame) :
         SearchFailed(OnException(frame,
                                  Exc("WebsearchException", Calls(frame)), jitter))
    /\ UNCHANGED env_vars

\* The client raises (transport error, HTTP 5xx).
SearchProviderError ==
    /\ state = "SEARCHING"
    /\ frame.pc = "calling"
    /\ \E jitter \in NextJitters(frame) :
         SearchFailed(OnException(frame, Exc("APIError", Calls(frame)), jitter))
    /\ UNCHANGED env_vars

\* The backoff sleep of search is over: search() runs again.
SearchRetry ==
    /\ state = "SEARCHING"
    /\ frame.pc = "sleeping"
    /\ SearchAttempt(AfterSleep(frame), search_calls[1])
    /\ UNCHANGED <<params, today, search_calls, eval_calls, search_results>>
    /\ UNCHANGED env_vars

\* The provider answers the evaluation with a parsed ClaimReview:
\* make_request returns it, _evaluate_claim returns it, execute returns it.
EvalProviderReturns ==
    /\ state = "EVALUATING"
    /\ frame.pc = "calling"
    /\ \E v \in Verdicts :
         /\ frame' = OnReturn(frame, v)
         /\ state' = "DONE"
         /\ delivered' = Append(delivered, Verdict(ExecuteReturn(v)))
    /\ UNCHANGED <<params, today, search_calls, eval_calls, provider_calls,
                   search_results>>
    /\ UNCHANGED env_vars

\* No parsed object: OpenRouterAdapterException(EMPTY_RESPONSE_MESSAGE).
EvalProviderEmpty ==
    /\ state = "EVALUATING"
    /\ frame.pc = "calling"
    /\ \E jitter \in NextJitters(frame) :
         EvaluationFailed(OnException(frame,
                              Exc("OpenRouterAdapterException", Calls(frame)), jitter))
    /\ UNCHANGED env_vars

EvalProviderError ==
    /\ state = "EVALUATING"
    /\ frame.pc = "calling"
    /\ \E jitter \in NextJitters(frame) :
         EvaluationFailed(OnException(frame, Exc("APIError", Calls(frame)), jitter))
    /\ UNCHANGED env_vars

\* The backoff sleep of make_request is over: the same arguments are sent again.
EvalRetry ==
    /\ state = "EVALUATING"
    /\ frame.pc = "sleeping"
    /\ frame' = AfterSleep(frame)
    /\ provider_calls' =
          Append(provider_calls, GatewayRequest(RetriedCall(eval_calls[1])))
    /\ UNCHANGED <<state, params, today, search_calls, eval_calls,
                   search_results, delivered>>
    /\ UNCHANGED env_vars

\* The task running execute is cancelled while it waits for the provider or
\* sleeps: CancelledError is raised at that await.
Cancel ==
    /\ state \in {"SEARCHING", "EVALUATING"}
    /\ LET f == IF frame.pc = "calling"
                THEN OnException(frame, Exc("CancelledError", Calls(frame)), 0)
                ELSE CancelledInSleep(frame)
       IN  IF state = "SEARCHING" THEN SearchFailed(f) ELSE EvaluationFailed(f)
    /\ UNCHANGED env_vars

\* The calendar date changes while the execution is under way.
MidnightPasses ==
    /\ state \in {"START", "SEARCHING", "EVALUATING"}
    /\ today < MaxDay
    /\ today' = today + 1
    /\ UNCHANGED <<frame, state, params, search_calls, eval_calls,
                   provider_calls, search_results, delivered>>
    /\ UNCHANGED env_vars

Next ==
    \/ execute
    \/ SearchProviderReturns
    \/ SearchProviderEmpty
    \/ SearchProviderError
    \/ SearchRetry
    \/ EvalProviderReturns
    \/ EvalProviderEmpty
    \/ EvalProviderError
    \/ EvalRetry
    \/ Cancel
    \/ MidnightPasses

Spec == Init /\ [][Next]_vars

\* The same execution when execute is started, every request to the provider
\* is answered or fails (the client returns or raises) and every
\* asyncio.sleep comes to its end.
ProviderAnswersSearch ==
    SearchProviderReturns \/ SearchProviderEmpty \/ SearchProviderError

ProviderAnswersEvaluation ==
    EvalProviderReturns \/ EvalProviderEmpty \/ EvalProviderError

\* execute is called with the params FactCheckService.fact_check builds.
InitFair ==
    /\ Init
    /\ params.max_results = SERVICE_MAX_RESULTS

SpecFair ==
    /\ InitFair
    /\ [][Next]_vars
    /\ WF_vars(execute)
    /\ WF_vars(ProviderAnswersSearch)
    /\ WF_vars(SearchRetry)
    /\ WF_vars(ProviderAnswersEvaluation)
    /\ WF_vars(EvalRetry)

----------------------------------------------------------------------------
\* SpecConfig: one execution of the pipeline up to the evaluation's first
\* request, in a process whose MODEL_MAPPING is the shipped table or lacks the
\* entry of a use case (an entry removed, or a use case added to ModelUseCase
\* without one): both cases of `use_case not in MODEL_MAPPING` in
\* get_model_name.  The steps are those of Spec; the answers to the
\* evaluation's requests are left out (Spec has them).

\* MODEL_MAPPING, whole or with some of its entries missing
MappingChoices ==
    {[u \in D |-> MODEL_MAPPING[u]] : D \in SUBSET UseCases}

InitConfig ==
    /\ state = "START"
    /\ params \in ParamChoices
    /\ today = 1
    /\ frame = NewFrame(SearchRetryConfig)
    /\ search_calls = <<>>
    /\ eval_calls = <<>>
    /\ provider_calls = <<>>
    /\ search_results = NoResult
    /\ delivered = <<>>
    /\ mapping \in MappingChoices
    /\ api = IdleApi
    /\ tasks = NoTasks

NextConfig ==
    \/ execute
    \/ SearchProviderReturns
    \/ SearchProviderEmpty
    \/ SearchProviderError
    \/ SearchRetry
    \/ Cancel
    \/ MidnightPasses

SpecConfig == InitConfig /\ [][NextConfig]_vars

----------------------------------------------------------------------------
\* SpecGateway: one call of OpenRouterAdapter.make_request, in structured mode
\* (output_type given) or in plain mode (output_type=None)

\* The values make_request tests with `if not ...`: None, a string, an object
PyNone == [kind |-> "None"]
PyStr(text) == [kind |-> "str", s |-> text]
PyObj(v) == [kind |-> "obj", v |-> v]

\* bool(x) for these values: None and "" are false
Truthy(x) == x.kind = "obj" \/ (x.kind = "str" /\ x.s # "")

\* The keyword arguments make_request may be called with
GatewayCalls ==
    [model : {<<MODEL_MAPPING.fact_check_evaluation>>},
     messages : {<<[role |-> "user", content |-> <<"Test claim">>]>>},
     output_type : {"ClaimReview", "None"}]

\* response.choices[0].message as the client hands it over: of parse() in
\* structured mode, of create() in plain mode
ProviderMessages(call) ==
    IF call.output_type # "None"
    THEN {[parsed |-> x, content |-> PyStr("{...}")] :
            x \in {PyNone} \cup {PyObj(v) : v \in {BaseVerdict}}}
    ELSE {[content |-> x] :
            x \in {PyNone, PyStr(""), PyStr("The sky is blue.")}}

\* The request of one attempt: client.chat.completions.parse(...,
\* response_format=output_type) or client.chat.completions.create(**kwargs)
GatewayAttemptRequest(call) ==
    IF call.output_type # "None"
    THEN GatewayRequest(call)
    ELSE [step |-> "completion", client |-> "OpenRouterAdapter.client",
          model |-> call.model, messages |-> call.messages]

\* The part of the message make_request looks at in the mode of the call
Payload(call, message) ==
    IF call.output_type # "None" THEN message.parsed ELSE message.content

make_request_unchecked(call, message) == Returned(Payload(call, message))

\* make_request after the provider's answer: `if not <payload>: raise
\* OpenRouterAdapterException(EMPTY_RESPONSE_MESSAGE)`, else return the payload
make_request_result(call, message) ==
    IF ~Truthy(Payload(call, message))
    THEN Raised([cls |-> "OpenRouterAdapterException"])
    ELSE Returned(Payload(call, message))

InitGateway ==
    /\ frame = NewFrame(GatewayRetryConfig)
    /\ state = "START"
    /\ params = IdleParams
    /\ today = 1
    /\ search_calls = <<>>
    /\ eval_calls = <<>>
    /\ provider_calls = <<>>
    /\ search_results = NoResult
    /\ delivered = <<>>
    /\ mapping = MODEL_MAPPING
    /\ api = IdleApi
    /\ tasks = NoTasks

gateway_rest == <<state, params, today, search_calls, search_results,
                  mapping, api, tasks>>

\* make_request(**call) is called: the wrapper invokes the body, which sends
\* the request.
GatewayCalled ==
    /\ frame.pc = "idle"
    /\ \E call \in GatewayCalls :
         /\ eval_calls' = Append(eval_calls, call)
         /\ provider_calls' = Append(provider_calls, GatewayAttemptRequest(call))
    /\ frame' = Invoke(frame)
    /\ UNCHANGED delivered
    /\ UNCHANGED gateway_rest

\* An attempt ended by raising e: the wrapper sleeps, or raises to the caller.
GatewayAttemptFailed(e) ==
    \E jitter \in NextJitters(frame) :
        LET g == OnException(frame, e, jitter) IN
        /\ frame' = g
        /\ delivered' = IF g.pc = "raised"
                        THEN Append(delivered, Failure(g.result.e))
                        ELSE delivered

\* The provider answers the attempt with message.
GatewayAnswered(message) ==
    /\ frame.pc = "calling"
    /\ LET out == make_request_result(eval_calls[1], message) IN
       IF out.kind = "value"
       THEN /\ frame' = OnReturn(frame, out.v)
            /\ delivered' = Append(delivered, Returned(out.v))
       ELSE GatewayAttemptFailed(Exc(out.e.cls, Calls(frame)))
    /\ UNCHANGED <<eval_calls, provider_calls>>
    /\ UNCHANGED gateway_rest

GatewayProviderAnswers ==
    /\ frame.pc = "calling"
    /\ \E message \in ProviderMessages(eval_calls[1]) : GatewayAnswered(message)

\* The client raises (transport error, HTTP 5xx).
GatewayProviderError ==
    /\ frame.pc = "calling"
    /\ GatewayAttemptFailed(Exc("APIError", Calls(frame)))
    /\ UNCHANGED <<eval_calls, provider_calls>>
    /\ UNCHANGED gateway_rest

\* The backoff sleep is over: the body runs again with the same arguments.
GatewayRetry ==
    /\ frame.pc = "sleeping"
    /\ frame' = AfterSleep(frame)
    /\ provider_calls' = Append(provider_calls,
                                GatewayAttemptRequest(eval_calls[1]))
    /\ UNCHANGED <<eval_calls, delivered>>
    /\ UNCHANGED gateway_rest

NextGateway ==
    \/ GatewayCalled
    \/ GatewayProviderAnswers
    \/ GatewayProviderError
    \/ GatewayRetry

SpecGateway == InitGateway /\ [][NextGateway]_vars

----------------------------------------------------------------------------
\* SpecApi: one request to POST /api/v1/fact-check, from the validation of its
\* body to the response the client receives.  A string of the request is
\* "x" * n, written Str(n); only its length matters to the validation.

MaxOverLength == 2

QUERY_MIN_LENGTH == 1
QUERY_MAX_LENGTH == 1000
SLUG_LENGTH == 30
HTTP_200_OK == 200
HTTP_422_UNPROCESSABLE_ENTITY == 422
HTTP_500_INTERNAL_SERVER_ERROR == 500

Str(n) == [kind |-> "str", char |-> "x", n |-> n]
MissingField == [kind |-> "missing"]

\* The bodies a client may post: {} and {"query": "x" * n}
RequestBodies ==
    {[kind |-> "json", query |-> MissingField]}
    \cup {[kind |-> "json", query |-> Str(n)] :
            n \in 0..(QUERY_MAX_LENGTH + MaxOverLength)}

\* The provider during the request: answering, or HTTP 500 to every call.
ProviderModes == {"up", "down"}

FactCheckRequestValidShort(body) ==
    /\ body.query.kind = "str"
    /\ body.query.n >= QUERY_MIN_LENGTH
    /\ body.query.n < QUERY_MAX_LENGTH

\* FactCheckRequest: query is required, min_length=1, max_length=1000
FactCheckRequestValid(body) ==
    /\ body.query.kind = "str"
    /\ body.query.n >= QUERY_MIN_LENGTH
    /\ body.query.n <= QUERY_MAX_LENGTH

JSONResponse(content, status_code) ==
    [kind |-> "json", status |-> status_code, content |-> content]

\* ResponseTransformer.success / .error / .validation_error
TransformSuccess(data, status_code) ==
    [success |-> TRUE, data |-> data, message |-> "success",
     status_code |-> status_code]

TransformError(message, error_code, status_code) ==
    [success |-> FALSE, error |-> [code |-> error_code, message |-> message],
     status_code |-> status_code]

TransformValidationError(errors) ==
    [success |-> FALSE, error |-> [message |-> "Validation error"],
     errors |-> errors, status_code |-> HTTP_422_UNPROCESSABLE_ENTITY]

\* What pydantic reports for a body that is not a FactCheckRequest
ValidationErrors(body) ==
    IF body.query.kind = "missing" THEN <<"Field required">>
    ELSE IF body.query.n < QUERY_MIN_LENGTH THEN <<"String should have at least 1 character">>
    ELSE <<"String should have at most 1000 characters">>

\* validation_exception_handler(request, exc)
validation_exception_handler(errors) ==
    LET transformed == TransformValidationError(errors) IN
    JSONResponse(transformed, transformed.status_code)

\* ResponseTransformerMiddleware._extract_error_message
ExtractErrorMessage(body_json) ==
    IF "detail" \in DOMAIN body_json THEN body_json.detail
    ELSE "An error occurred"

\* ResponseTransformerMiddleware.dispatch on a JSON response of the route or
\* of an exception handler
Dispatch(original) ==
    IF original.status < 400
    THEN JSONResponse(TransformSuccess(original.content, original.status),
                      original.status)
    ELSE LET msg == ExtractErrorMessage(original.content) IN
         IF msg = "Validation error"
         THEN JSONResponse(TransformValidationError(msg),
                           HTTP_422_UNPROCESSABLE_ENTITY)
         ELSE JSONResponse(TransformError(msg, <<"http_", original.status>>,
                                          original.status),
                           original.status)

\* request.query[:30].lower().replace(' ', '-')
Slug(q) == Str(Min(q.n, SLUG_LENGTH))

StubClaimReviewSlugged(request, date) ==
    [claimReviewed |-> Slug(request.query),
     datePublished |-> date,
     reviewRating |-> [ratingValue |-> "3", alternateName |-> "Half True"],
     url |-> <<"https://fact-check.wordlift.io/review/", Slug(request.query)>>,
     reviewBody |-> "This is a stub response from FactCheckService.",
     itemReviewed |-> <<"https://example.com/source1",
                        "https://example.com/source2">>]

\* The ClaimReview that fact_check builds and returns
StubClaimReview(request, date) ==
    [claimReviewed |-> request.query,
     datePublished |-> date,
     reviewRating |-> [ratingValue |-> "3", alternateName |-> "Half True"],
     url |-> <<"https://fact-check.wordlift.io/review/", Slug(request.query)>>,
     reviewBody |-> "This is a stub response from FactCheckService.",
     itemReviewed |-> <<"https://example.com/source1",
                        "https://example.com/source2">>]

\* FactCheckService.fact_check(request): params is built, the call of
\* self.pipeline.execute is commented out, the stub is returned.
ServiceResult(request, date) == Returned(StubClaimReview(request, date))

InitApi ==
    /\ api \in {[IdleApi EXCEPT !.provider = m] : m \in ProviderModes}
    /\ tasks = NoTasks
    /\ state = "START"
    /\ params = IdleParams
    /\ today = 1
    /\ frame = NewFrame(SearchRetryConfig)
    /\ search_calls = <<>>
    /\ eval_calls = <<>>
    /\ provider_calls = <<>>
    /\ search_results = NoResult
    /\ delivered = <<>>
    /\ mapping = MODEL_MAPPING

api_rest == <<frame, state, today, search_calls, eval_calls, provider_calls,
              search_results, delivered, mapping, tasks>>

\* A request arrives.  FastAPI builds the FactCheckRequest before it calls the
\* route: a body that fails raises RequestValidationError, which
\* validation_exception_handler answers; the route is not called.
PostFactCheck ==
    /\ api.phase = "idle"
    /\ \E body \in RequestBodies :
         IF FactCheckRequestValid(body)
         THEN api' = [api EXCEPT !.request = body, !.phase = "in_route"]
         ELSE api' = [api EXCEPT
                        !.request = body,
                        !.phase = "responded",
                        !.response =
                            Dispatch(validation_exception_handler(
                                         ValidationErrors(body)))]
    /\ UNCHANGED params
    /\ UNCHANGED api_rest

\* The route awaits fact_check_service.fact_check(request=request).
ServiceFactCheck ==
    /\ api.phase = "in_route"
    /\ params' = [query |-> api.request.query,
                  max_results |-> SERVICE_MAX_RESULTS]
    /\ api' = [api EXCEPT !.phase = "returned",
                          !.service_calls = @ + 1,
                          !.response = ServiceResult(api.request, StrfDate(today))]
    /\ UNCHANGED api_rest

\* The route returns the service's ClaimReview; the middleware wraps it.
RouteResponds ==
    /\ api.phase = "returned"
    /\ api' = [api EXCEPT !.phase = "responded",
                          !.response = Dispatch(JSONResponse(api.response.v,
                                                             HTTP_200_OK))]
    /\ UNCHANGED params
    /\ UNCHANGED api_rest

NextApi ==
    \/ PostFactCheck
    \/ ServiceFactCheck
    \/ RouteResponds
    \/ MidnightPasses

SpecApi == InitApi /\ [][NextApi]_vars

----------------------------------------------------------------------------
\* Concurrent executions: several requests call execute() of the one pipeline
\* object, whose adapters and decorated functions are module-level singletons.
\* The event loop runs one coroutine at a time and switches only at an await,
\* so a step of an execution runs from one await to the next.  Each execution
\* holds its locals in tasks[t]: the wrapper's frame (retry_decorator.py:34-35
\* makes `retries` a local of each wrapper call), execute's params and
\* search_results, _evaluate_claim's messages.  Shared and only read: the
\* mapping, the retry configurations, the clients.

NumExecutions == 2

Executions == 1..NumExecutions

\* The claims of the concurrent requests, one each.
QueryOf(t) ==
    LET qs == <<"The sky is blue", "Test claim", "Water is wet", "Cats can fly">>
    IN  qs[((t - 1) % Len(qs)) + 1]

\* What the provider may answer a search with, here: at most one item.
ConcurrentEvidenceLists == SeqsUpTo(EvidenceItems, 1)

\* execute(params=PipelineParams(query, max_results=5)) has been called
NewTask(t) ==
    [state |-> "START",
     params |-> [query |-> QueryOf(t), max_results |-> SERVICE_MAX_RESULTS],
     frame |-> NewFrame(SearchRetryConfig),
     search_results |-> NoResult,
     eval_call |-> NoResult,
     outcome |-> NoResult]

WrapperRetriesShared(ts, t) ==
    CHOOSE r \in {ts[u].frame.retries : u \in DOMAIN ts} :
        \A u \in DOMAIN ts : ts[u].frame.retries <= r

\* `retries = 0` is the first statement of wrapper(): the counter that the
\* handler of execution t increments is the one of t's own wrapper call.
WrapperRetries(ts, t) == ts[t].frame.retries

InitConcurrent ==
    /\ tasks = [t \in Executions |-> NewTask(t)]
    /\ frame = NewFrame(SearchRetryConfig)
    /\ state = "START"
    /\ params = IdleParams
    /\ today = 1
    /\ search_calls = <<>>
    /\ eval_calls = <<>>
    /\ provider_calls = <<>>
    /\ search_results = NoResult
    /\ delivered = <<>>
    /\ mapping = MODEL_MAPPING
    /\ api = IdleApi

concurrent_rest == <<frame, state, params, today, search_calls, eval_calls,
                     provider_calls, search_results, delivered, mapping, api>>

\* Execution t enters execute: search() is invoked through its wrapper.
TaskExecute(t) ==
    /\ tasks[t].state = "START"
    /\ tasks' = [tasks EXCEPT ![t].state = "SEARCHING",
                              ![t].frame = Invoke(NewFrame(SearchRetryConfig))]
    /\ UNCHANGED concurrent_rest

\* The provider answers t's search with the results rs: execute goes on to
\* _evaluate_claim, which builds its messages and calls make_request.
TaskSearchReturns(t, rs) ==
    /\ tasks[t].state = "SEARCHING"
    /\ tasks[t].frame.pc = "calling"
    /\ LET got == SearchReturn(rs, tasks[t].params.max_results)
           call == EvaluationCall(tasks[t].params.query, got, StrfDate(today))
       IN  tasks' = [tasks EXCEPT
                        ![t].state = "EVALUATING",
                        ![t].search_results = Returned(got),
                        ![t].eval_call = Returned(call),
                        ![t].frame = Invoke(NewFrame(GatewayRetryConfig))]
    /\ UNCHANGED concurrent_rest

\* The provider answers t's evaluation with the ClaimReview v.
TaskEvalReturns(t, v) ==
    /\ tasks[t].state = "EVALUATING"
    /\ tasks[t].frame.pc = "calling"
    /\ tasks' = [tasks EXCEPT
                    ![t].state = "DONE",
                    ![t].frame = OnReturn(@, v),
                    ![t].outcome = Verdict(ExecuteReturn(v))]
    /\ UNCHANGED concurrent_rest

\* The client raises in t's attempt: the handler of t's wrapper call runs.
\* The jitter is taken at the low end of its range.
TaskProviderError(t) ==
    /\ tasks[t].state \in {"SEARCHING", "EVALUATING"}
    /\ tasks[t].frame.pc = "calling"
    /\ LET f == [tasks[t].frame EXCEPT !.retries = WrapperRetries(tasks, t)]
           g == OnException(f, Exc("APIError", Calls(f)), 0)
       IN  tasks' = [tasks EXCEPT
                        ![t].frame = g,
                        ![t].state = IF g.pc = "raised" THEN "FAILED" ELSE @,
                        ![t].outcome = IF g.pc = "raised"
                                       THEN Failure(g.result.e) ELSE @]
    /\ UNCHANGED concurrent_rest

\* t's backoff sleep is over: its wrapper invokes the function again.
TaskRetry(t) ==
    /\ tasks[t].state \in {"SEARCHING", "EVALUATING"}
    /\ tasks[t].frame.pc = "sleeping"
    /\ tasks' = [tasks EXCEPT ![t].frame = AfterSleep(@)]
    /\ UNCHANGED concurrent_rest

NextConcurrent ==
    \E t \in Executions :
        \/ TaskExecute(t)
        \/ \E rs \in ConcurrentEvidenceLists : TaskSearchReturns(t, rs)
        \/ TaskEvalReturns(t, BaseVerdict)
        \/ TaskProviderError(t)
        \/ TaskRetry(t)

SpecConcurrent == InitConcurrent /\ [][NextConcurrent]_vars

----------------------------------------------------------------------------
\* Properties of the decorator (checked under SpecRetry)

LastEv(f) == f.trace[Len(f.trace)]
SleepRecords(f) == SelectSeq(f.trace, LAMBDA x : x.ev = "sleep")

\* The wrapper gave up on a failure of the operation that it may retry.
GaveUp(f) ==
    /\ f.pc = "raised"
    /\ LastEv(f).ev = "fail"
    /\ IsRetryable(f.cfg, LastEv(f).e)

\* C1: when the operation fails k <= max_retries times with retryable
\* exceptions and then returns v, the wrapper returns v itself, after k + 1
\* invocations and k sleeps; it never gives up before failure max_retries + 1.
C1_SuccessAfterFailures ==
    LET k == Failures(frame) IN
    /\ frame.pc = "returned" =>
          /\ k <= frame.cfg.max_retries
          /\ LastEv(frame).ev = "ok"
          /\ frame.result = Returned(LastEv(frame).v)
          /\ Calls(frame) = k + 1
          /\ Sleeps(frame) = k
    /\ GaveUp(frame) => k > frame.cfg.max_retries

C1_Witness ==
    /\ frame.pc = "returned"
    /\ frame.cfg.max_retries >= 2
    /\ Failures(frame) = frame.cfg.max_retries

\* C2 as stated: an operation that always fails is invoked exactly
\* max_retries times before the wrapper raises.
C2_RaisesAfterMaxRetriesInvocations ==
    GaveUp(frame) => Calls(frame) = frame.cfg.max_retries

\* C2 amended: an operation that always fails is invoked exactly
\* max_retries + 1 times (the first try and max_retries retries), every
\* invocation failing, before the wrapper raises.
C2_RaisesAfterMaxRetriesPlusOne ==
    GaveUp(frame) =>
        /\ Calls(frame) = frame.cfg.max_retries + 1
        /\ Failures(frame) = frame.cfg.max_retries + 1
        /\ frame.retries = frame.cfg.max_retries + 1

C2_Witness ==
    /\ GaveUp(frame)
    /\ frame.cfg.max_retries = MaxRetriesBound
    /\ Calls(frame) = MaxRetriesBound + 1

\* C3: when the wrapper gives up it has slept exactly max_retries times, none
\* of them after the last failed attempt; the n-th backoff delay is
\* min(max_delay, base_delay * 2^(n-1)), the delays never decrease and stay at
\* max_delay once they have reached it.
C3_SleepsAndDelays ==
    LET s == SleepRecords(frame)
        cfg == frame.cfg
    IN  /\ GaveUp(frame) =>
              /\ Len(s) = cfg.max_retries
              /\ \A i \in 1..Len(frame.trace) :
                    frame.trace[i].ev = "sleep" =>
                        /\ i + 1 <= Len(frame.trace)
                        /\ frame.trace[i + 1].ev = "call"
        /\ \A n \in 1..Len(s) :
              /\ s[n].delay = Min(cfg.max_delay, cfg.base_delay * 2 ^ (n - 1))
              /\ s[n].delay <= cfg.max_delay
              /\ n > 1 => s[n - 1].delay <= s[n].delay
              /\ (n > 1 /\ s[n - 1].delay = cfg.max_delay) =>
                    s[n].delay = cfg.max_delay

C3_Witness ==
    LET s == SleepRecords(frame) IN
    /\ GaveUp(frame)
    /\ Len(s) >= 3
    /\ s[1].delay < s[2].delay
    /\ s[2].delay = frame.cfg.max_delay
    /\ s[3].delay = frame.cfg.max_delay

C5_FinalFailureUnchanged ==
    (frame.pc = "raised" /\ frame.retries > frame.cfg.max_retries) =>
        /\ LastEv(frame).ev = "fail"
        /\ frame.result = Raised(LastEv(frame).e)
        /\ frame.result.e.id = Calls(frame)

C5_Witness ==
    /\ frame.pc = "raised"
    /\ frame.retries > frame.cfg.max_retries
    /\ frame.cfg.max_retries >= 2
    /\ \E i \in 1..Len(frame.trace) :
          /\ frame.trace[i].ev = "fail"
          /\ frame.trace[i].e.cls # frame.result.e.cls

----------------------------------------------------------------------------
\* Properties of the pipeline (checked under Spec)

StepsOf(step) == {i \in 1..Len(provider_calls) : provider_calls[i].step = step}

AllowedTransitions ==
    {<<"START", "SEARCHING">>,
     <<"SEARCHING", "EVALUATING">>, <<"SEARCHING", "FAILED">>,
     <<"EVALUATING", "DONE">>, <<"EVALUATING", "FAILED">>}

C6_StateInvariant ==
    /\ state \in {"START", "SEARCHING", "EVALUATING", "DONE", "FAILED"}
    /\ state = "START" => search_calls = <<>> /\ provider_calls = <<>>
    /\ state # "START" =>
          search_calls = <<[query |-> params.query,
                            max_results |-> params.max_results]>>
    /\ state = "SEARCHING" => eval_calls = <<>> /\ StepsOf("evaluation") = {}
    /\ state \in {"EVALUATING", "DONE"} => Len(eval_calls) = 1
    /\ Len(eval_calls) <= 1
    /\ eval_calls # <<>> => search_results.kind = "value"
    /\ \A i \in StepsOf("evaluation") : \A j \in StepsOf("search") : j < i

\* C6: the states of execute follow START -> SEARCHING -> EVALUATING -> DONE,
\* with FAILED entered only from SEARCHING or EVALUATING; the search adapter is
\* called exactly once, with (query, max_results); the evaluation call is made
\* only once the search has returned; no provider request of the search
\* follows one of the evaluation; nothing happens after DONE or FAILED.
C6_PipelineOrdering ==
    /\ []C6_StateInvariant
    /\ [][/\ state' # state => <<state, state'>> \in AllowedTransitions
          /\ state \notin {"DONE", "FAILED"}
          /\ search_calls # <<>> => search_calls' = search_calls
          /\ eval_calls # <<>> => eval_calls' = eval_calls]_vars

C6_Witness ==
    /\ state = "DONE"
    /\ params.max_results = 1
    /\ Cardinality(StepsOf("search")) >= 2
    /\ Cardinality(StepsOf("evaluation")) >= 2

\* C7: when an attempt of the search fails with the retries used up, execute
\* ends in FAILED, the caller receives that attempt's error and nothing else,
\* and no evaluation call is made; an execution that failed in the search has
\* made no evaluation call and returned no verdict.
C7_FailClosedOnSearch ==
    /\ [](search_results.kind = "none" =>
            /\ eval_calls = <<>>
            /\ StepsOf("evaluation") = {}
            /\ \A i \in 1..Len(delivered) : delivered[i].kind = "error")
    /\ [][(/\ state = "SEARCHING"
           /\ frame.retries = frame.cfg.max_retries
           /\ SearchProviderEmpty \/ SearchProviderError) =>
          (/\ state' = "FAILED"
           /\ LastEv(frame').ev = "fail"
           /\ LastEv(frame').e.id = Calls(frame)
           /\ delivered' = <<Failure(LastEv(frame').e)>>
           /\ eval_calls' = <<>>
           /\ search_results'.kind = "none")]_vars

C7_Witness ==
    /\ state = "FAILED"
    /\ search_results.kind = "none"
    /\ frame.retries = ADAPTER_MAX_RETRIES + 1
    /\ delivered = <<Failure(Exc("WebsearchException", ADAPTER_MAX_RETRIES + 1))>>

\* C8: when the search returns a list of zero items, execute goes on to
\* EVALUATING and calls make_request exactly once; the user prompt holds the
\* claim and a "Search Results:" block with nothing in it; if the execution
\* fails, it fails in an attempt of the evaluation.
C8_EmptyEvidenceStillEvaluated ==
    search_results = Returned(<<>>) =>
        /\ state \in {"EVALUATING", "DONE", "FAILED"}
        /\ Len(eval_calls) = 1
        /\ StepsOf("evaluation") # {}
        /\ frame.cfg = GatewayRetryConfig
        /\ LET user == eval_calls[1].messages[2] IN
           /\ user.role = "user"
           /\ \E i \in 1..Len(user.content) - 1 :
                /\ user.content[i] = "Search Results:"
                /\ user.content[i + 1] = "Today's date: "
                /\ \E j \in 1..i - 1 : user.content[j] = params.query
        /\ state = "FAILED" =>
              /\ frame.pc = "raised"
              /\ delivered = <<Failure(frame.result.e)>>

C8_Witness ==
    /\ search_results = Returned(<<>>)
    /\ state = "DONE"

\* C9: when execute reaches DONE, the caller has received exactly the record
\* that the provider's answer was parsed into and make_request returned, and
\* make_request was called once.
C9_VerdictVerbatim ==
    state = "DONE" =>
        /\ LastEv(frame).ev = "ok"
        /\ frame.result = Returned(LastEv(frame).v)
        /\ delivered = <<Verdict(LastEv(frame).v)>>
        /\ Len(eval_calls) = 1
        /\ Cardinality(StepsOf("evaluation")) = Calls(frame)

C9_Witness ==
    /\ state = "DONE"
    /\ today = 2
    /\ delivered[1].v.datePublished = StrfDate(1)
    /\ delivered[1].v.claimReviewed # params.query

\* C10: an execution that has ended has handed its caller exactly one outcome,
\* a complete verdict (DONE) or a failure (FAILED); one that has not ended has
\* handed over nothing.
C10_AllOrNothing ==
    /\ Len(delivered) <= 1
    /\ state \in {"START", "SEARCHING", "EVALUATING"} => delivered = <<>>
    /\ state = "DONE" =>
          /\ Len(delivered) = 1
          /\ delivered[1].kind = "verdict"
          /\ delivered[1].v \in Verdicts
    /\ state = "FAILED" =>
          /\ Len(delivered) = 1
          /\ delivered[1].kind = "error"

C10_Witness ==
    /\ state = "FAILED"
    /\ eval_calls # <<>>
    /\ frame.retries > frame.cfg.max_retries
    /\ Len(delivered) = 1

\* The search of this execution failed with WebsearchException.
FailedWithNoSearchResults ==
    /\ state = "FAILED"
    /\ search_results.kind = "none"
    /\ delivered # <<>>
    /\ delivered[1].kind = "error"
    /\ delivered[1].e.cls = "WebsearchException"

\* The events of the attempts of search that failed
SearchFailures == SelectSeq(frame.trace, LAMBDA x : x.ev = "fail")

\* C16 as stated: the search fails with WebsearchException exactly when every
\* attempt of the retry budget got no parsed object from the provider.
C16_NoSearchResultsIffAllEmpty ==
    search_results.kind = "none" =>
        (FailedWithNoSearchResults <=>
            /\ Len(SearchFailures) = frame.cfg.max_retries + 1
            /\ \A i \in 1..Len(SearchFailures) :
                  SearchFailures[i].e.cls = "WebsearchException")

\* C16 amended: the search fails with WebsearchException exactly when the last
\* attempt of the retry budget got no parsed object, every earlier attempt
\* having failed (no parsed object, or an error of the client); so it does
\* when every attempt got no parsed object.  A parsed answer ends the search
\* at once: execute goes on with the answer's result list as it is, of any
\* length, zero and more than max_results included, and no further request of
\* the search is sent.
C16_SearchOutcome ==
    /\ [](search_results.kind = "none" =>
            (FailedWithNoSearchResults <=>
                /\ Len(SearchFailures) = frame.cfg.max_retries + 1
                /\ SearchFailures[Len(SearchFailures)].e.cls = "WebsearchException"))
    /\ [][\A rs \in EvidenceLists :
            SearchProviderParsed(rs) =>
                /\ search_results' = Returned(rs)
                /\ state' \in {"EVALUATING", "FAILED"}
                /\ delivered' = delivered
                /\ StepsOf("search")' = StepsOf("search")
                /\ eval_calls' # <<>>]_vars

C16_Witness ==
    /\ FailedWithNoSearchResults
    /\ \E i \in 1..Len(SearchFailures) : SearchFailures[i].e.cls = "APIError"
    /\ \E i \in 1..Len(SearchFailures) - 1 :
          SearchFailures[i].e.cls = "WebsearchException"

\* C14 as stated: one call of search and one call of make_request send at
\* most 3 requests each to the provider, the first try included.
C14_AtMostThreeAttempts ==
    /\ Cardinality(StepsOf("search")) <= 3
    /\ Cardinality(StepsOf("evaluation")) <= 3

\* C14 amended: execute calls search once and make_request once, and each call
\* sends at most max_retries + 1 = 4 requests to the provider (the first try
\* and 3 retries); a call that gives up has sent exactly 4; the first backoff
\* delay of a call is the base delay, 1 second.
C14_AtMostFourAttempts ==
    /\ Len(search_calls) <= 1
    /\ Len(eval_calls) <= 1
    /\ Cardinality(StepsOf("search")) <= ADAPTER_MAX_RETRIES + 1
    /\ Cardinality(StepsOf("evaluation")) <= ADAPTER_MAX_RETRIES + 1
    /\ Calls(frame) <= ADAPTER_MAX_RETRIES + 1
    /\ GaveUp(frame) => Calls(frame) = ADAPTER_MAX_RETRIES + 1
    /\ SleepRecords(frame) # <<>> =>
          SleepRecords(frame)[1].delay = ADAPTER_BASE_DELAY_S * TicksPerSecond

C14_Witness ==
    /\ state = "DONE"
    /\ Cardinality(StepsOf("search")) = ADAPTER_MAX_RETRIES + 1
    /\ Cardinality(StepsOf("evaluation")) = ADAPTER_MAX_RETRIES + 1
    /\ Calls(frame) = ADAPTER_MAX_RETRIES + 1

\* C17 as stated: every request sent to the provider during an execution is
\* sent by the gateway's client from inside make_request, the websearch
\* request included: the search is a make_request call in structured mode with
\* the WebsearchResponseList schema.
C17_SingleChokepoint ==
    \A i \in 1..Len(provider_calls) :
        /\ provider_calls[i].client = "OpenRouterAdapter.client"
        /\ \E j \in 1..Len(eval_calls) :
              /\ eval_calls[j].output_type = provider_calls[i].response_format
              /\ eval_calls[j].model = provider_calls[i].model

EvidenceUrls ==
    {search_results.v[i].url : i \in 1..Len(search_results.v)}

UrlsOf(v) == {v.itemReviewed[i] : i \in 1..Len(v.itemReviewed)}

\* C20 as stated: every url of a returned verdict is the url of an Evidence
\* Item that was handed to the evaluation step.
C20_SourcesFromEvidence ==
    state = "DONE" => UrlsOf(delivered[1].v) \subseteq EvidenceUrls

\* C20 amended: the url list of a returned verdict is the url list of the
\* provider's parsed answer, nothing added, removed or checked, so it holds
\* evidence urls only when the provider's answer does; the url of every
\* Evidence Item handed to the evaluation step is in the user prompt of the
\* evaluation call, after "URL: ".
C20_SourcesAsProvided ==
    state = "DONE" =>
        /\ LastEv(frame).ev = "ok"
        /\ delivered[1].v.itemReviewed = LastEv(frame).v.itemReviewed
        /\ UrlsOf(LastEv(frame).v) \subseteq EvidenceUrls =>
              UrlsOf(delivered[1].v) \subseteq EvidenceUrls
        /\ LET user == eval_calls[1].messages[2].content IN
           \A u \in EvidenceUrls :
               \E k \in 2..Len(user) : user[k - 1] = "URL: " /\ user[k] = u

C20_Witness ==
    /\ state = "DONE"
    /\ Len(search_results.v) = MaxEvidence
    /\ Cardinality(EvidenceUrls) >= 2
    /\ \E u \in UrlsOf(delivered[1].v) : u \notin EvidenceUrls

----------------------------------------------------------------------------
\* Properties of the HTTP layer (checked under SpecApi)

Responded == api.phase = "responded"

QueryLengthOk ==
    /\ api.request.kind = "json"
    /\ api.request.query.kind = "str"
    /\ api.request.query.n \in QUERY_MIN_LENGTH..QUERY_MAX_LENGTH

RECURSIVE SumDelays(_)
SumDelays(sleeps) ==
    IF sleeps = <<>> THEN 0 ELSE Head(sleeps).delay + SumDelays(Tail(sleeps))

\* The backoff delays a wrapper call has waited, jitter left out
TotalBackoff(f) == SumDelays(SleepRecords(f))

\* C12 as stated: with the provider answering HTTP 500 to every call, a
\* request with a valid claim is answered with status 500 and success = false,
\* after backoff delays of at least 1 + 2 + 4 seconds.
C12_OutageEndsInServerError ==
    (Responded /\ QueryLengthOk /\ api.provider = "down") =>
        /\ api.response.status = HTTP_500_INTERNAL_SERVER_ERROR
        /\ ~api.response.content.success
        /\ TotalBackoff(frame) >= (1 + 2 + 4) * TicksPerSecond

\* C13 as stated: once fact_check has returned for a valid request, it has
\* called pipeline.execute exactly once, with PipelineParams(query =
\* request.query, max_results = 5), and what it returned is what the pipeline
\* handed back.
C13_ServiceDelegates ==
    (api.phase = "returned" /\ QueryLengthOk) =>
        /\ api.pipeline_calls = <<[query |-> api.request.query,
                                   max_results |-> SERVICE_MAX_RESULTS]>>
        /\ state = "DONE"
        /\ delivered = <<Verdict(api.response.v)>>

\* C18: a posted claim of length 0 or above 1000 (or a body without one) is
\* answered with status 422 and success = false, and neither the service nor
\* the pipeline nor the provider is called for it; a claim of length 1..1000,
\* 1000 included, is handed to the service and answered with a success.
C18_ClaimValidation ==
    /\ (api.request.kind = "json" /\ ~QueryLengthOk) =>
          /\ Responded
          /\ api.response.status = HTTP_422_UNPROCESSABLE_ENTITY
          /\ api.response.content.success = FALSE
          /\ api.service_calls = 0
          /\ api.pipeline_calls = <<>>
          /\ params = IdleParams
          /\ search_calls = <<>> /\ eval_calls = <<>> /\ provider_calls = <<>>
    /\ QueryLengthOk =>
          /\ api.phase \in {"in_route", "returned", "responded"}
          /\ api.phase \in {"returned", "responded"} => api.service_calls = 1
          /\ Responded =>
                /\ api.response.status = HTTP_200_OK
                /\ api.response.content.success = TRUE

C18_Witness ==
    /\ Responded
    /\ api.request.query.kind = "str"
    /\ api.request.query.n = QUERY_MAX_LENGTH + 1
    /\ api.response.status = HTTP_422_UNPROCESSABLE_ENTITY
    /\ api.service_calls = 0

----------------------------------------------------------------------------
\* Properties of the gateway (checked under SpecGateway)

IsEmptyResponse(e) == e.cls = "OpenRouterAdapterException"

LastFailure(f) ==
    LET fails == SelectSeq(f.trace, LAMBDA x : x.ev = "fail") IN
    fails[Len(fails)]

\* C15: an answer with no parsed object (structured mode) or no text (plain
\* mode) fails the attempt with OpenRouterAdapterException, which the wrapper
\* retries: a sleep and a new attempt follow unless the retries are used up; an
\* answer with content is returned to the caller as it is; when every attempt
\* was empty the caller gets OpenRouterAdapterException; the caller is never
\* handed None or "".
C15_EmptyResponseRetried ==
    /\ [](/\ \A i \in 1..Len(delivered) :
                delivered[i].kind = "value" => Truthy(delivered[i].v)
          /\ \A i \in 1..Len(frame.trace) :
                (frame.trace[i].ev = "fail" /\ IsEmptyResponse(frame.trace[i].e)) =>
                    /\ IsRetryable(frame.cfg, frame.trace[i].e)
                    /\ i < Len(frame.trace) => frame.trace[i + 1].ev = "sleep"
                    /\ i = Len(frame.trace) =>
                          /\ frame.retries = frame.cfg.max_retries + 1
                          /\ delivered = <<Failure(frame.trace[i].e)>>
          /\ frame.pc = "returned" =>
                /\ delivered = <<Returned(LastEv(frame).v)>>
                /\ Failures(frame) <= frame.cfg.max_retries
          /\ Len(delivered) <= 1)
    /\ [][eval_calls # <<>> =>
          \A message \in ProviderMessages(eval_calls[1]) :
            GatewayAnswered(message) =>
                IF Truthy(Payload(eval_calls[1], message))
                THEN /\ frame'.pc = "returned"
                     /\ delivered' = <<Returned(Payload(eval_calls[1], message))>>
                ELSE /\ frame'.pc \in {"sleeping", "raised"}
                     /\ IsEmptyResponse(LastFailure(frame').e)
                     /\ LastFailure(frame').e.id = Calls(frame)
                     /\ \A i \in 1..Len(delivered') :
                           delivered'[i].kind = "error"]_vars

C15_Witness ==
    /\ frame.pc = "returned"
    /\ eval_calls[1].output_type = "None"
    /\ Failures(frame) = frame.cfg.max_retries
    /\ \A i \in 1..Len(frame.trace) :
          frame.trace[i].ev = "fail" => IsEmptyResponse(frame.trace[i].e)
    /\ delivered = <<Returned(PyStr("The sky is blue."))>>

----------------------------------------------------------------------------
\* Properties of the verdict's fields (checked under Spec)

\* <rating_scale> of EVALUATION_PROMPT: value -> label
RATING_SCALE ==
    [v \in {"0", "1", "2", "3", "4", "5"} |->
        CASE v = "0" -> "Uncertain"
          [] v = "1" -> "Pants on Fire"
          [] v = "2" -> "False"
          [] v = "3" -> "Half True"
          [] v = "4" -> "Mostly True"
          [] v = "5" -> "True"]

RatingWellFormed(r) ==
    /\ r.ratingValue \in DOMAIN RATING_SCALE
    /\ r.alternateName = RATING_SCALE[r.ratingValue]

\* C21: every verdict the pipeline returns has a ratingValue among "0".."5"
\* and the alternateName the rating scale gives to that value.
C21_RatingWellFormed ==
    \A i \in 1..Len(delivered) :
        delivered[i].kind = "verdict" =>
            RatingWellFormed(delivered[i].v.reviewRating)

\* The date _evaluate_claim interpolated into the system prompt of call c
PromptDate(c) == c.messages[1].content[2]

\* C22: the datePublished of every returned verdict is the date that
\* _evaluate_claim read when the evaluation step began and put in the prompts.
C22_DatePublishedIsEvaluationDate ==
    \A i \in 1..Len(delivered) :
        delivered[i].kind = "verdict" =>
            /\ eval_calls # <<>>
            /\ delivered[i].v.datePublished = PromptDate(eval_calls[1])

----------------------------------------------------------------------------
\* Properties of cancellation (checked under Spec)

\* The caller of execute got a CancelledError.
Cancelled ==
    \E i \in 1..Len(delivered) :
        delivered[i].kind = "error" /\ delivered[i].e.cls = "CancelledError"

\* C23: a cancellation that arrives while execute waits for the provider or
\* sleeps between attempts is not retried: the step that delivers it sends no
\* request and starts no sleep, the CancelledError reaches the caller, and from
\* then on the execution sends no request, sleeps no more and returns no verdict.
C23_CancellationNotRetried ==
    /\ [](Cancelled =>
            /\ state = "FAILED"
            /\ frame.pc = "raised"
            /\ frame.result.e.cls = "CancelledError"
            /\ \A i \in 1..Len(delivered) : delivered[i].kind # "verdict")
    /\ [][Cancel =>
            /\ Cancelled'
            /\ provider_calls' = provider_calls
            /\ Calls(frame') = Calls(frame)
            /\ Sleeps(frame') = Sleeps(frame)]_vars
    /\ [][Cancelled =>
            /\ provider_calls' = provider_calls
            /\ frame' = frame
            /\ delivered' = delivered]_vars

C23_Witness ==
    /\ Cancelled
    /\ eval_calls # <<>>
    /\ LastEv(frame).ev = "sleep"
    /\ Sleeps(frame) = 2

----------------------------------------------------------------------------
\* Properties of concurrent executions (checked under SpecConcurrent)

PiecesOf(text) == {text[i] : i \in 1..Len(text)}

\* The counters of a wrapper call are those of its own attempts.
OwnCounters(f) ==
    /\ f.retries = Failures(f)
    /\ Sleeps(f) = Min(Failures(f), f.cfg.max_retries)
    /\ Calls(f) = Failures(f) + (IF f.pc \in {"calling", "returned"} THEN 1 ELSE 0)
    /\ f.pc = "raised" <=> Failures(f) = f.cfg.max_retries + 1

\* C24: concurrent executions do not affect each other.  The retry counter,
\* the attempts and the sleeps of an execution's wrapper call count that
\* execution's own failures only; its evaluation prompt is built from its own
\* claim and the results its own search returned, and holds no other
\* execution's claim; a step of one execution changes nothing of another.
C24_RequestIndependence ==
    /\ [](\A t \in Executions :
            /\ OwnCounters(tasks[t].frame)
            /\ tasks[t].eval_call # NoResult =>
                 LET user == tasks[t].eval_call.v.messages[2].content IN
                 /\ tasks[t].search_results # NoResult
                 /\ user = build_user_prompt(QueryOf(t), tasks[t].search_results.v,
                                             PromptDate(tasks[t].eval_call.v))
                 /\ \A u \in Executions \ {t} : QueryOf(u) \notin PiecesOf(user))
    /\ [][\A t \in Executions :
            /\ tasks'[t] # tasks[t] =>
                  \A u \in Executions \ {t} : tasks'[u] = tasks[u]
            /\ \A rs \in ConcurrentEvidenceLists :
                  TaskSearchReturns(t, rs) =>
                      /\ tasks'[t].search_results = Returned(rs)
                      /\ tasks'[t].eval_call.v.messages[2].content =
                            build_user_prompt(QueryOf(t), rs, StrfDate(today))]_vars

C24_Witness ==
    /\ tasks[1].state = "FAILED"
    /\ tasks[1].eval_call = NoResult
    /\ Failures(tasks[1].frame) = ADAPTER_MAX_RETRIES + 1
    /\ tasks[2].state = "DONE"
    /\ Failures(tasks[2].frame) = 0
    /\ tasks[2].search_results.v # <<>>
    /\ tasks[2].outcome = Verdict(BaseVerdict)

----------------------------------------------------------------------------
\* Properties of the model selection (checked under SpecConfig)

\* The use cases of ModelUseCase and a value that is none of them
SelectorInputs == UseCases \cup {"unknown_use_case"}

SelectorContract ==
    /\ \A u \in SelectorInputs :
          LET m == get_model_name(u)
              w == get_websearch_model(u)
          IN  IF u \in DOMAIN mapping
              THEN /\ m = [ok |-> TRUE, name |-> <<MODEL_MAPPING[u]>>]
                   /\ w = [ok |-> TRUE, name |-> <<MODEL_MAPPING[u], ":online">>]
              ELSE /\ m = [ok |-> FALSE, cls |-> "ValueError"]
                   /\ w = [ok |-> FALSE, cls |-> "ValueError"]
    /\ \A i \in 1..Len(provider_calls) :
          IF provider_calls[i].step = "search"
          THEN provider_calls[i].model =
                  <<MODEL_MAPPING["fact_check_websearch"], ":online">>
          ELSE /\ provider_calls[i].model = <<MODEL_MAPPING["fact_check_evaluation"]>>
               /\ provider_calls[i].response_format = "ClaimReview"
    /\ \A i \in 1..Len(eval_calls) :
          /\ eval_calls[i].model = <<MODEL_MAPPING["fact_check_evaluation"]>>
          /\ eval_calls[i].output_type = "ClaimReview"
    /\ "fact_check_websearch" \notin DOMAIN mapping => provider_calls = <<>>
    /\ "fact_check_evaluation" \notin DOMAIN mapping => eval_calls = <<>>
    /\ \A u \in DOMAIN mapping : mapping[u] = MODEL_MAPPING[u]

\* C25: get_model_name gives the table's entry for a mapped use case and fails
\* with ValueError for one without entry; get_websearch_model gives the same
\* with ":online" appended, and fails the same way; every search request names
\* get_websearch_model(FACT_CHECK_WEBSEARCH), every evaluation call names
\* get_model_name(FACT_CHECK_EVALUATION) and asks for a ClaimReview; the table
\* is never changed.
C25_ModelSelector == []SelectorContract /\ [][mapping' = mapping]_vars

C25_Witness ==
    /\ mapping = MODEL_MAPPING
    /\ state = "EVALUATING"
    /\ Len(provider_calls) = 3
    /\ provider_calls[2].step = "search"
    /\ provider_calls[3].step = "evaluation"

----------------------------------------------------------------------------
\* Properties of the backoff (checked under SpecRetry)

\* The wrapper call has the retry count and the timing of the adapters' calls.
TimedAsAdapters(cfg) ==
    \A a \in {SearchRetryConfig, GatewayRetryConfig} :
        /\ cfg.max_retries = a.max_retries
        /\ cfg.base_delay = a.base_delay
        /\ cfg.max_delay = a.max_delay
        /\ cfg.jitter_factor = a.jitter_factor

\* C26: the wrapper sleeps once before each retry, at most max_retries times;
\* the n-th sleep lasts delay_n + jitter_n with
\* delay_n = min(max_delay, base_delay * 2^(n-1)) and
\* 0 <= jitter_n <= jitter_factor * delay_n (jitter_factor in percent); with
\* the adapters' parameters the delays are 1, 2 and 4 seconds.
C26_BackoffFormula ==
    LET s == SleepRecords(frame)
        cfg == frame.cfg
    IN  /\ Len(s) <= cfg.max_retries
        /\ Len(s) = Min(frame.retries, cfg.max_retries)
        /\ \A n \in 1..Len(s) :
              /\ s[n].delay = Min(cfg.max_delay, cfg.base_delay * 2 ^ (n - 1))
              /\ 0 <= s[n].jitter
              /\ 100 * s[n].jitter <= cfg.jitter_factor * s[n].delay
              /\ s[n].wait = s[n].delay + s[n].jitter
              /\ TimedAsAdapters(cfg) =>
                    s[n].delay = <<1, 2, 4>>[n] * TicksPerSecond

C26_Witness ==
    LET s == SleepRecords(frame) IN
    /\ TimedAsAdapters(frame.cfg)
    /\ GaveUp(frame)
    /\ Len(s) = 3
    /\ s[1].jitter = 0
    /\ s[3].jitter > 0
    /\ s[3].wait > 4 * TicksPerSecond

\* C27: no sleep of the wrapper lasts longer than max_delay, whatever the
\* attempt number and the jitter drawn.
C27_SleepWithinMaxDelay ==
    \A n \in 1..Len(SleepRecords(frame)) :
        SleepRecords(frame)[n].wait <= frame.cfg.max_delay

----------------------------------------------------------------------------
\* Properties of the evaluation prompts (checked under Spec)

\* The date _build_user_prompt put after "Today's date: " in the user prompt
UserPromptDate(c) ==
    LET user == c.messages[2].content IN user[Len(user) - 1]

EvaluationRequests ==
    SelectSeq(provider_calls, LAMBDA r : r.step = "evaluation")

\* C28: an evaluation step reads the date once, when it begins; both
\* occurrences in the system prompt and the one in the user prompt are that
\* date; every attempt of the evaluation call, retries included, sends the
\* same messages, whatever the calendar date has become in the meantime.
C28_SingleDateCapture ==
    /\ [](/\ Len(eval_calls) <= 1
          /\ eval_calls # <<>> =>
                LET c == eval_calls[1] IN
                /\ c.messages[1].content[4] = PromptDate(c)
                /\ UserPromptDate(c) = PromptDate(c)
                /\ \A i \in 1..Len(EvaluationRequests) :
                      EvaluationRequests[i].messages = c.messages)
    /\ [][/\ (eval_calls = <<>> /\ eval_calls' # <<>>) =>
                PromptDate(eval_calls'[1]) = StrfDate(today)
          /\ eval_calls # <<>> => eval_calls' = eval_calls]_vars

C28_Witness ==
    /\ Len(EvaluationRequests) = 3
    /\ eval_calls # <<>>
    /\ PromptDate(eval_calls[1]) = StrfDate(1)
    /\ today = 2
    /\ LastEv(frame).ev = "call"

\* The pieces of a user prompt between "Search Results:" and "Today's date: "
EvidencePart(user) == SubSeq(user, 4, Len(user) - 3)

\* C29: the evaluation call's messages are the system prompt and then the
\* user prompt; the user prompt holds the claim, then for the k-th result the
\* search returned the k-th block with its title, url and content, and no
\* other block, then the date; it is the value _build_user_prompt gives for
\* (claim, results, date).
C29_PromptConstruction ==
    \A c \in 1..Len(eval_calls) :
        LET call == eval_calls[c]
            user == call.messages[2].content
            rs == search_results.v
            part == EvidencePart(user)
        IN  /\ Len(call.messages) = 2
            /\ call.messages[1].role = "system"
            /\ call.messages[1].content = system_prompt(PromptDate(call))
            /\ call.messages[2].role = "user"
            /\ user[1] = "Claim to fact-check:"
            /\ user[2] = params.query
            /\ user[3] = "Search Results:"
            /\ Len(part) = IF rs = <<>> THEN 0 ELSE 7 * Len(rs) - 1
            /\ \A k \in 1..Len(rs) :
                  /\ part[7 * (k - 1) + 2] = rs[k].title
                  /\ part[7 * (k - 1) + 5] = rs[k].url
                  /\ part[7 * (k - 1) + 6] = rs[k].content
            /\ user[Len(user) - 2] = "Today's date: "
            /\ user[Len(user) - 1] = PromptDate(call)
            /\ user = build_user_prompt(params.query, rs, PromptDate(call))

C29_Witness ==
    /\ eval_calls # <<>>
    /\ Len(search_results.v) = 2
    /\ search_results.v[1] # search_results.v[2]
    /\ search_results.v[1].url = "https://sciencedaily.com/earth"
    /\ Len(eval_calls[1].messages[2].content) = 19

----------------------------------------------------------------------------
\* Termination (checked under SpecFair)

SearchRequests ==
    SelectSeq(provider_calls, LAMBDA r : r.step = "search")

\* The backoff sleeps of the execution so far: those of the search step, one
\* before each of its requests but the first once it is over, and those of the
\* wrapper call under way.
TotalSleeps ==
    IF eval_calls = <<>> THEN Sleeps(frame)
    ELSE (Len(SearchRequests) - 1) + Sleeps(frame)

\* C30: when every provider call returns or raises and every sleep ends, the
\* execution reaches DONE or FAILED.  Within a step the retry counter never
\* decreases and never exceeds max_retries + 1, so an execution makes at most
\* 2 * (max_retries + 1) attempts and sleeps at most 2 * max_retries times.
C30_Termination ==
    /\ <>(state \in {"DONE", "FAILED"})
    /\ [](/\ frame.retries <= frame.cfg.max_retries + 1
          /\ Len(provider_calls) <= 2 * (ADAPTER_MAX_RETRIES + 1)
          /\ Len(SearchRequests) <= ADAPTER_MAX_RETRIES + 1
          /\ Len(EvaluationRequests) <= ADAPTER_MAX_RETRIES + 1
          /\ TotalSleeps <= 2 * ADAPTER_MAX_RETRIES)
    /\ [][/\ state' = state => frame'.retries >= frame.retries
          /\ frame'.retries <= frame.retries + 1
          /\ state \in {"DONE", "FAILED"} => state' = state]_vars

C30_Witness ==
    /\ state = "FAILED"
    /\ Len(provider_calls) = 2 * (ADAPTER_MAX_RETRIES + 1)
    /\ TotalSleeps = 2 * ADAPTER_MAX_RETRIES
    /\ frame.retries = ADAPTER_MAX_RETRIES + 1

====
